---- MODULE Spec2Model ----
(***************************************************************************)
(* A model of rllib/env/multi_agent_env.py: the class MultiEnv returned by *)
(* make_multi_agent, which stacks num single-agent gym environments        *)
(* ("replicas") behind the MultiAgentEnv interface.                        *)
(*                                                                         *)
(* Python values are represented as follows.                               *)
(*   - a list is a function on 0..n-1 (the source's 0-based indices);      *)
(*   - a dict with integer keys is a function on its key set; the done     *)
(*     dict, which mixes integer keys with the string key "__all__", is    *)
(*     two functions: ret.done on the integer keys and ret.special on the  *)
(*     string keys;                                                        *)
(*   - action_dict is a sequence of <<key, action>> entries with distinct  *)
(*     keys: a dict is iterated in insertion order (line 205);             *)
(*   - the single-agent environments are external: a replica is a record   *)
(*     [uid, cfg, t, calls] holding its creation rank, the configuration   *)
(*     its constructor received, the steps taken since its last reset and  *)
(*     the calls it received during the adapter's current operation.  Its  *)
(*     observations are tagged <<uid, t>>; whether a step reports done is  *)
(*     not determined here and is drawn from BOOLEAN.                      *)
(*                                                                         *)
(* Specifications.                                                         *)
(*   - Spec: one adapter under every call of reset, step and render;       *)
(*   - SpecClass: the class under constructions with configurations the    *)
(*     driver writes and reuses;                                           *)
(*   - SpecLive: a driver that runs episodes to their end, with fairness;  *)
(*   - SpecGroup: the re-keying of with_agent_groups, whose wrapper class  *)
(*     is imported from another file.                                      *)
(***************************************************************************)
EXTENDS Integers, Sequences, FiniteSets, TLC

\* Bounds of the model.
MaxCount == 2       \* largest num_agents
MaxSteps == 3       \* single-agent steps between two resets, all replicas together
MaxActs  == 2       \* entries of one action_dict
MaxReward == 2      \* largest reward of one agent of a grouped environment

VARIABLES
    env_name_or_creator, \* "str" or "callable" (lines 138, 187)
    callerCfg,           \* the driver's configuration object, [isNone, d]
    given,               \* callerCfg as it was when __init__ was last called
    made,                \* callerCfg as the driver wrote it
    built,               \* an instance of MultiEnv exists
    agents,              \* self.agents
    dones,               \* self.dones
    reported,            \* <<key, replica>> pairs that reported done since the last reset
    terminated,          \* a step has returned "__all__" = True since the last reset
    call,                \* the last operation: [op, keys, before]; only reset
                         \* records in before what it found
    ret,                 \* what the last operation returned or raised
    gcall,               \* the call on a grouped environment: [op, acts]
    inner,               \* what the wrapped environment returns to that call,
                         \* and in val the action_dict it was called with
    outer                \* what the grouped environment returned

avars == <<env_name_or_creator, callerCfg, given, made, built, agents, dones,
           reported, terminated, call, ret>>

gvars == <<gcall, inner, outer>>

vars == <<avars, gvars>>

----------------------------------------------------------------------------
\* Python helpers.

EmptyDict == <<>>

PyLen(l) == Cardinality(DOMAIN l)

\* l[i] is defined for -len(l) <= i < len(l); a negative i counts from the end.
ValidIndex(n, i) == -n <= i /\ i < n

ListPos(n, i) == IF i >= 0 THEN i ELSE n + i

\* d[k] = v
DictSet(d, k, v) == (k :> v) @@ d

\* d.pop(k, default): the value, and d afterwards
PopValue(d, k, default) == IF k \in DOMAIN d THEN d[k] ELSE default

PopRest(d, k) == [x \in (DOMAIN d) \ {k} |-> d[x]]

----------------------------------------------------------------------------
\* Inputs.

NUM == "num_agents"

CfgKeys == {NUM, "opt"}

NumVals == 0..MaxCount

OptVals == {7}

CfgMaps ==
    { f \in UNION { [S -> NumVals \cup OptVals] : S \in SUBSET CfgKeys } :
        /\ (NUM \in DOMAIN f => f[NUM] \in NumVals)
        /\ ("opt" \in DOMAIN f => f["opt"] \in OptVals) }

\* What a driver may pass as config: None, or a mapping.
Configs == {[isNone |-> TRUE, d |-> EmptyDict]} \cup
           {[isNone |-> FALSE, d |-> m] : m \in CfgMaps}

Sources == {"str", "callable"}

\* Keys a driver may use: every replica number of every adapter, the number
\* one past the end, -1 (Python's "last element") and a key below -len.
KeyRange == {-(MaxCount + 1), -1} \cup 0..MaxCount

ActVals == {1}

Keys(ad) == {ad[k][1] : k \in 1..Len(ad)}

ActionDicts ==
    { ad \in UNION { [1..n -> KeyRange \X ActVals] : n \in 0..MaxActs } :
        \A j, k \in 1..Len(ad) : j # k => ad[j][1] # ad[k][1] }

NoBefore == [op |-> "none", dones |-> {}, stepped |-> {}]

NoCalls == [reset |-> 0, step |-> 0, render |-> 0]

NoRet == [kind |-> "none", obs |-> EmptyDict, rew |-> EmptyDict,
          done |-> EmptyDict, special |-> EmptyDict, info |-> EmptyDict,
          val |-> <<>>]

Raised(e) == [NoRet EXCEPT !.kind = e]

NoGroupCall == [op |-> "none", acts |-> EmptyDict]

\* The replicas at the start of an operation of the adapter.
Quiet(ags) == [p \in DOMAIN ags |-> [ags[p] EXCEPT !.calls = NoCalls]]

\* The replica apart from the calls it received.
State(env) == [uid |-> env.uid, cfg |-> env.cfg, t |-> env.t]

----------------------------------------------------------------------------
\* The single-agent environments (external; lines 189, 192, 200, 206, 214).

\* gym.make(env_name_or_creator): the configuration is not an argument.
GymMake(k) == [uid |-> k, cfg |-> EmptyDict, t |-> 0, calls |-> NoCalls]

\* env_name_or_creator(config)
Creator(config, k) == [uid |-> k, cfg |-> config, t |-> 0, calls |-> NoCalls]

\* a.reset(): a new episode of the replica; returns its first observation.
EnvReset(env) ==
    [env |-> [env EXCEPT !.t = 0, !.calls.reset = @ + 1], obs |-> <<env.uid, 0>>]

\* self.agents[i].step(action), reporting done = d.
EnvStep(env, action, d) ==
    [env  |-> [env EXCEPT !.t = @ + 1, !.calls.step = @ + 1],
     obs  |-> <<env.uid, env.t + 1>>,
     rew  |-> action,
     done |-> d,
     info |-> EmptyDict]

\* self.agents[0].render(mode)
\* Its effect on the replica is not determined here; it returns a frame.
EnvRender(env, mode) ==
    [env |-> [env EXCEPT !.calls.render = @ + 1], val |-> <<env.uid, mode>>]

Modes == {"None", "human"}

----------------------------------------------------------------------------
\* MultiEnv.__init__ (lines 184-195).

\* config = config or {}: None and the empty dict are both falsy.
ConfigOr(c) == IF c.isNone \/ DOMAIN c.d = {} THEN EmptyDict ELSE c.d

\* config is then the caller's own object, which pop mutates.
Aliased(c) == ~c.isNone /\ DOMAIN c.d # {}

\* [... for _ in range(num)]
MakeAgents(src, config, num) ==
    [k \in 0..(num - 1) |->
        IF src = "str" THEN GymMake(k) ELSE Creator(config, k)]

NewDones == {}

MultiEnvInit(src, c) ==
    LET config == ConfigOr(c)
        num    == PopValue(config, NUM, 1)
        rest   == PopRest(config, NUM)
        ags    == MakeAgents(src, rest, num)
    IN  [agents |-> ags,
         dones  |-> NewDones,
         \* self.agents[0] raises IndexError on an empty list (line 194)
         ok     |-> PyLen(ags) > 0,
         caller |-> IF Aliased(c) THEN [c EXCEPT !.d = rest] ELSE c]

\* The driver prepares a configuration object.
MakeConfig ==
    \E c \in Configs :
        /\ callerCfg' = c
        /\ made' = c
        /\ call' = [op |-> "config", keys |-> {}, before |-> NoBefore]
        /\ ret' = NoRet
        /\ agents' = Quiet(agents)
        /\ UNCHANGED <<env_name_or_creator, given, built, dones, reported,
                       terminated>>
        /\ UNCHANGED gvars

\* The driver calls MultiEnv(callerCfg).
Construct ==
    LET r == MultiEnvInit(env_name_or_creator, callerCfg) IN
    /\ given' = callerCfg
    /\ callerCfg' = r.caller
    /\ call' = [op |-> "init", keys |-> {}, before |-> NoBefore]
    /\ IF r.ok
         THEN /\ built' = TRUE
              /\ agents' = r.agents
              /\ dones' = r.dones
              /\ reported' = {}
              /\ terminated' = FALSE
              /\ ret' = [NoRet EXCEPT !.kind = "init"]
         ELSE /\ ret' = Raised("IndexError")
              /\ agents' = Quiet(agents)
              /\ UNCHANGED <<built, dones, reported, terminated>>
    /\ UNCHANGED <<env_name_or_creator, made>>
    /\ UNCHANGED gvars

----------------------------------------------------------------------------
\* MultiEnv.reset (lines 198-200).

\* (a reset that keeps the set)
ResetDonesKept == dones

\* self.dones = set()
ResetDones == {}

\* (a reset that passes over the replicas that took no step)
ResetAllStepped(ags) ==
    [i \in {j \in DOMAIN ags : ags[j].t > 0} |-> EnvReset(ags[i])]

\* {i: a.reset() for i, a in enumerate(self.agents)}: per key, what a.reset()
\* returned and the replica afterwards.
ResetAll(ags) == [i \in DOMAIN ags |-> EnvReset(ags[i])]

Reset ==
    /\ built
    /\ dones' = ResetDones
    /\ LET rs == ResetAll(Quiet(agents)) IN
         /\ agents' = [p \in DOMAIN agents |->
                          IF p \in DOMAIN rs THEN rs[p].env ELSE Quiet(agents)[p]]
         /\ ret' = [NoRet EXCEPT !.kind = "reset",
                                 !.obs = [i \in DOMAIN rs |-> rs[i].obs]]
    /\ reported' = {}
    /\ terminated' = FALSE
    /\ call' = [op |-> "reset", keys |-> {},
                before |-> IF call.op = "reset"
                             THEN [call.before EXCEPT !.op = "reset"]
                             ELSE [op |-> call.op, dones |-> dones,
                                   stepped |-> {p \in DOMAIN agents : agents[p].t > 0}]]
    /\ UNCHANGED <<env_name_or_creator, callerCfg, given, made, built>>
    /\ UNCHANGED gvars

----------------------------------------------------------------------------
\* MultiEnv.step (lines 203-210).

\* (a set that follows the latest flag: a replica reporting False leaves it)
AddDoneLatest(ds, i, d) == IF d THEN ds \cup {i} ELSE ds \ {i}

\* if done[i]: self.dones.add(i)
AddDone(ds, i, d) == IF d THEN ds \cup {i} ELSE ds

\* len(self.dones) == len(self.agents)
AllDone(ds, ags) == Cardinality(ds) = PyLen(ags)

\* obs, rew, done, info = {}, {}, {}, {}
StepStart(ags, ds, rep) ==
    [agents |-> Quiet(ags), dones |-> ds, reported |-> rep,
     obs |-> EmptyDict, rew |-> EmptyDict, done |-> EmptyDict,
     info |-> EmptyDict, err |-> FALSE]

\* One iteration of the loop, for the entry (i, action), the replica reporting d.
StepEntry(st, i, action, d) ==
    LET n == PyLen(st.agents) IN
    IF ~ValidIndex(n, i)
      THEN [st EXCEPT !.err = TRUE]
      ELSE LET p == ListPos(n, i)
               r == EnvStep(st.agents[p], action, d)
           IN  [st EXCEPT !.agents   = [@ EXCEPT ![p] = r.env],
                          !.obs      = DictSet(@, i, r.obs),
                          !.rew      = DictSet(@, i, r.rew),
                          !.done     = DictSet(@, i, r.done),
                          !.info     = DictSet(@, i, r.info),
                          !.dones    = AddDone(@, i, r.done),
                          !.reported = IF r.done THEN @ \cup {<<i, p>>} ELSE @]

\* for i, action in action_dict.items(): ... ; the exception ends the loop.
\* (a loop that goes on with the next entry after a failed lookup)
RECURSIVE StepLoopOn(_, _, _, _)
StepLoopOn(st, ad, outcome, k) ==
    IF k > Len(ad) THEN st
    ELSE StepLoopOn(StepEntry([st EXCEPT !.err = FALSE], ad[k][1], ad[k][2],
                              outcome[k]),
                    ad, outcome, k + 1)

RECURSIVE StepLoop(_, _, _, _)
StepLoop(st, ad, outcome, k) ==
    IF k > Len(ad) \/ st.err
      THEN st
      ELSE StepLoop(StepEntry(st, ad[k][1], ad[k][2], outcome[k]), ad, outcome, k + 1)

StepRun(ags, ds, rep, ad, outcome) == StepLoop(StepStart(ags, ds, rep), ad, outcome, 1)

\* ("__all__" measured on the done dict of this call instead of self.dones)
StepReturnThisCall(st) ==
    IF st.err THEN Raised("IndexError")
    ELSE [NoRet EXCEPT !.kind = "step", !.obs = st.obs, !.rew = st.rew,
                       !.done = st.done, !.info = st.info,
                       !.special = ("__all__" :>
                           (Cardinality(DOMAIN st.done) = PyLen(st.agents)))]

\* ("__all__" assigned inside the loop: an empty action_dict never sets it)
StepReturnInLoop(st) ==
    IF st.err
      THEN Raised("IndexError")
      ELSE [NoRet EXCEPT !.kind = "step", !.obs = st.obs, !.rew = st.rew,
                         !.done = st.done, !.info = st.info,
                         !.special = IF DOMAIN st.done = {}
                                       THEN EmptyDict
                                       ELSE ("__all__" :> AllDone(st.dones, st.agents))]

\* (a done flag for every replica, stepped or not)
StepReturnEveryone(st) ==
    IF st.err
      THEN Raised("IndexError")
      ELSE [NoRet EXCEPT !.kind = "step", !.obs = st.obs, !.rew = st.rew,
                         !.done = st.done @@ [p \in DOMAIN st.agents |-> p \in st.dones],
                         !.info = st.info,
                         !.special = ("__all__" :> AllDone(st.dones, st.agents))]

\* done["__all__"] = ...; return obs, rew, done, info
StepReturn(st) ==
    IF st.err
      THEN Raised("IndexError")
      ELSE [NoRet EXCEPT !.kind = "step", !.obs = st.obs, !.rew = st.rew,
                         !.done = st.done, !.info = st.info,
                         !.special = ("__all__" :> AllDone(st.dones, st.agents))]

\* Single-agent steps taken since the last reset.
\* the step returned "__all__" = True
ReturnedAll(r) ==
    /\ r.kind = "step"
    /\ "__all__" \in DOMAIN r.special
    /\ r.special["__all__"]

RECURSIVE SumT(_, _)
SumT(ags, n) == IF n = 0 THEN 0 ELSE ags[n - 1].t + SumT(ags, n - 1)

StepsTaken(ags) == SumT(ags, PyLen(ags))

\* The entries the loop reaches: those before the first key that is no index.
Reached(ad, n) ==
    {k \in 1..Len(ad) : \A j \in 1..(k - 1) : ValidIndex(n, ad[j][1])}

\* The entries whose replica is stepped.
Stepped(ad, n) == {k \in Reached(ad, n) : ValidIndex(n, ad[k][1])}

\* Insertion orders and outcomes that cannot be told apart get one
\* representative: an entry that steps no replica reports nothing (outcome
\* FALSE), and the entries the loop never reaches have no order (keys
\* ascending).
Representative(ad, outcome, n) ==
    LET R == Reached(ad, n)
        S == Stepped(ad, n)
    IN  /\ \A k \in (1..Len(ad)) \ S : ~outcome[k]
        /\ \A k \in (1..Len(ad)) \ R :
              ((k - 1) \in R) \/ (ad[k - 1][1] < ad[k][1])

\* The single-agent steps the call makes.
Work(ad, n) == Cardinality(Stepped(ad, n))

\* The calls step(ad), with the outcomes of its single-agent steps, that a
\* driver makes on an adapter of n replicas.
StepCalls ==
    [n \in 0..MaxCount |->
        { c \in UNION { {[ad |-> a, outcome |-> o, work |-> Work(a, n)] :
                             o \in [1..Len(a) -> BOOLEAN]} : a \in ActionDicts } :
            Representative(c.ad, c.outcome, n) }]

Step ==
    /\ built
    /\ \E c \in StepCalls[PyLen(agents)] :
       /\ StepsTaken(agents) + c.work <= MaxSteps
       /\ \E st \in {StepRun(agents, dones, reported, c.ad, c.outcome)} :
         /\ agents' = st.agents
         /\ dones' = st.dones
         /\ reported' = st.reported
         /\ ret' = StepReturn(st)
         /\ terminated' = (terminated \/ ReturnedAll(StepReturn(st)))
         /\ call' = [op |-> "step", keys |-> Keys(c.ad), before |-> NoBefore]
    /\ UNCHANGED <<env_name_or_creator, callerCfg, given, made, built>>
    /\ UNCHANGED gvars

----------------------------------------------------------------------------
\* MultiEnv.render (lines 213-214).

\* (a render that draws every replica)
RenderTargetsAll(ags) == DOMAIN ags

\* self.agents[0]
RenderTargets(ags) == {0}

Render ==
    /\ built
    /\ \E mode \in Modes :
         LET rs == [p \in RenderTargets(agents) |->
                       EnvRender(Quiet(agents)[p], mode)] IN
         /\ agents' = [p \in DOMAIN agents |->
                          IF p \in DOMAIN rs THEN rs[p].env ELSE Quiet(agents)[p]]
         /\ ret' = [NoRet EXCEPT !.kind = "render", !.val = rs[0].val]
    /\ call' = [op |-> "render", keys |-> {}, before |-> NoBefore]
    /\ UNCHANGED <<env_name_or_creator, callerCfg, given, made, built, dones, reported,
                 terminated>>
    /\ UNCHANGED gvars

----------------------------------------------------------------------------
\* MultiAgentEnv.render (lines 82-87), called on the adapter as
\* MultiAgentEnv.render(env, mode): the body is pass, the result None.

BaseRender ==
    /\ built
    /\ \E mode \in Modes :
         ret' = [NoRet EXCEPT !.kind = "render", !.val = <<>>]
    /\ agents' = Quiet(agents)
    /\ call' = [op |-> "base_render", keys |-> {}, before |-> NoBefore]
    /\ UNCHANGED <<env_name_or_creator, callerCfg, given, made, built, dones, reported,
                 terminated>>
    /\ UNCHANGED gvars

----------------------------------------------------------------------------
\* Agent grouping: MultiAgentEnv.with_agent_groups (lines 92-132) returns
\* GroupAgentsWrapper(self, groups, obs_space, act_space). The wrapper is
\* imported (line 130) and is described by section 4.2 of the specification:
\* reset and step delegate to the wrapped environment and re-key its result.

\* The agents of the wrapped environment.
AgentIds == {"a1", "a2", "a3", "a4"}

\* groups: group id -> ordered member ids; "a4" is in no group.
Groups == ("group1" :> <<"a1", "a2">>) @@ ("group2" :> <<"a3">>)

GroupIds == DOMAIN Groups

Members(g) == {Groups[g][j] : j \in 1..Len(Groups[g])}

Ungrouped == AgentIds \ UNION {Members(g) : g \in GroupIds}

RewVals == 1..MaxReward

\* What the wrapped environment may return: the agents that report in a call
\* vary from call to call.
WrappedObs(a) == <<"obs", a>>

WrappedResets ==
    { [NoRet EXCEPT !.kind = "reset", !.obs = [a \in P |-> WrappedObs(a)]] :
        P \in SUBSET AgentIds }

WrappedSteps ==
    UNION { { [NoRet EXCEPT !.kind = "step",
                            !.obs = [a \in P |-> WrappedObs(a)],
                            !.rew = rw,
                            !.done = dn,
                            !.info = [a \in P |-> EmptyDict],
                            !.special = ("__all__" :> al)] :
                rw \in [P -> RewVals], dn \in [P -> BOOLEAN], al \in BOOLEAN } :
            P \in SUBSET AgentIds }

\* The action_dicts of the driver of the grouped environment: a group acts
\* with the tuple of its members' actions.
GroupActionDicts ==
    { [k \in S |-> IF k \in GroupIds THEN [j \in 1..Len(Groups[k]) |-> v] ELSE v] :
        S \in SUBSET (GroupIds \cup Ungrouped), v \in ActVals }

\* (a group that counts as present with any one of its members)
CompleteAny(items, g) == Members(g) \cap DOMAIN items # {}

\* all members of g are present in the dict of this call
Complete(items, g) == Members(g) \subseteq DOMAIN items

Collapsed(items) == {g \in GroupIds : Complete(items, g)}

\* the entries that stay under their own id
Kept(items) ==
    {a \in DOMAIN items : \A g \in Collapsed(items) : a \notin Members(g)}

GroupKeys(items) == Collapsed(items) \cup Kept(items)

\* the members of the group that the dict holds, in GroupSpec order
Present(items, ms) == SelectSeq(ms, LAMBDA a : a \in DOMAIN items)

\* the ordered tuple of the members' entries
TupleOf(items, ms) ==
    LET ps == Present(items, ms) IN [j \in 1..Len(ps) |-> items[ps[j]]]

GroupTuples(items) ==
    [k \in GroupKeys(items) |->
        IF k \in Collapsed(items) THEN TupleOf(items, Groups[k]) ELSE items[k]]

\* (a reward that is the mean of the members' rewards)
RECURSIVE SumSeq(_)
SumSeq(q) == IF q = <<>> THEN 0 ELSE Head(q) + SumSeq(Tail(q))

MeanOf(rew, ms) == SumSeq(TupleOf(rew, ms)) \div Len(ms)

\* rewards are summed across all members of a group
SumOf(rew, ms) == SumSeq(TupleOf(rew, ms))

GroupRewards(rew) ==
    [k \in GroupKeys(rew) |->
        IF k \in Collapsed(rew) THEN SumOf(rew, Groups[k]) ELSE rew[k]]

\* the rewards of the members before the sum
IndividualRewards(rew, ms) ==
    [a \in {ms[j] : j \in 1..Len(ms)} \cap DOMAIN rew |-> rew[a]]

GroupInfos(info, rew) ==
    [k \in GroupKeys(info) |->
        IF k \in Collapsed(info)
          THEN [individual_rewards |-> IndividualRewards(rew, Groups[k]),
                members |-> TupleOf(info, Groups[k])]
          ELSE info[k]]

\* a group's action tuple goes to its members position by position
UngroupActions(acts) ==
    LET grouped == UNION {Members(g) : g \in DOMAIN acts \cap GroupIds}
        pos(a) == CHOOSE x \in UNION { {<<g, j>> : j \in 1..Len(Groups[g])} :
                                          g \in DOMAIN acts \cap GroupIds } :
                     Groups[x[1]][x[2]] = a
    IN  [a \in grouped \cup (DOMAIN acts \ GroupIds) |->
            IF a \in grouped THEN acts[pos(a)[1]][pos(a)[2]] ELSE acts[a]]

GroupReset ==
    /\ gcall.op = "reset"
    /\ outer.kind = "none"
    /\ outer' = [NoRet EXCEPT !.kind = "reset", !.obs = GroupTuples(inner.obs)]
    /\ UNCHANGED <<gcall, inner>>
    /\ UNCHANGED avars

GroupStep ==
    /\ gcall.op = "step"
    /\ outer.kind = "none"
    /\ inner' = [inner EXCEPT !.val = UngroupActions(gcall.acts)]
    /\ outer' = [NoRet EXCEPT !.kind = "step",
                              !.obs = GroupTuples(inner.obs),
                              !.rew = GroupRewards(inner.rew),
                              !.done = GroupTuples(inner.done),
                              !.info = GroupInfos(inner.info, inner.rew),
                              !.special = inner.special]
    /\ UNCHANGED gcall
    /\ UNCHANGED avars

----------------------------------------------------------------------------
\* Specifications.

FirstCall == [op |-> "init", keys |-> {}, before |-> NoBefore]

\* The state after ma_cls = make_multi_agent(src); env = ma_cls({"num_agents": n}).
Init ==
    \E src \in {"callable"}, n \in 1..MaxCount :
        LET c == [isNone |-> FALSE, d |-> (NUM :> n)]
            r == MultiEnvInit(src, c)
        IN  /\ env_name_or_creator = src
            /\ given = c
            /\ made = c
            /\ callerCfg = r.caller
            /\ built = TRUE
            /\ agents = r.agents
            /\ dones = r.dones
            /\ reported = {}
            /\ terminated = FALSE
            /\ call = FirstCall
            /\ ret = [NoRet EXCEPT !.kind = "init"]
            /\ gcall = NoGroupCall
            /\ inner = NoRet
            /\ outer = NoRet

Next == Reset \/ Step \/ Render \/ BaseRender

Spec == Init /\ [][Next]_vars

\* The state after ma_cls = make_multi_agent(src), before any instance exists.
InitClass ==
    /\ env_name_or_creator \in Sources
    /\ callerCfg \in Configs
    /\ given = callerCfg
    /\ made = callerCfg
    /\ built = FALSE
    /\ agents = EmptyDict
    /\ dones = {}
    /\ reported = {}
    /\ terminated = FALSE
    /\ call = [op |-> "none", keys |-> {}, before |-> NoBefore]
    /\ ret = NoRet
    /\ gcall = NoGroupCall
    /\ inner = NoRet
    /\ outer = NoRet

NextClass == MakeConfig \/ Construct

SpecClass == InitClass /\ [][NextClass]_vars

\* A driver that runs episode after episode on MultiEnv: reset, then step
\* after step over indices 0..count-1, each time for some of the replicas
\* that have not reported done yet, and reset again once "__all__" was True;
\* between two calls it may render. A replica reports done at its MaxSteps-th
\* step at the latest.
DriverReset ==
    /\ call.op = "init" \/ terminated
    /\ Reset

DriverStep ==
    /\ built
    /\ call.op # "init"
    /\ \E c \in StepCalls[PyLen(agents)] :
         /\ c.ad # <<>>
         /\ Keys(c.ad) \subseteq DOMAIN agents \ dones
         /\ \A k \in 1..Len(c.ad) :
               agents[c.ad[k][1]].t + 1 >= MaxSteps => c.outcome[k]
         /\ \E st \in {StepRun(agents, dones, reported, c.ad, c.outcome)} :
              /\ agents' = st.agents
              /\ dones' = st.dones
              /\ reported' = st.reported
              /\ ret' = StepReturn(st)
              /\ terminated' = (terminated \/ ReturnedAll(StepReturn(st)))
              /\ call' = [op |-> "step", keys |-> Keys(c.ad), before |-> NoBefore]
    /\ UNCHANGED <<env_name_or_creator, callerCfg, given, made, built>>
    /\ UNCHANGED gvars

DriverRender ==
    /\ call.op # "init"
    /\ Render

NextLive == DriverReset \/ DriverStep \/ DriverRender

\* The driver goes on as long as it has a call to make.
SpecLive == Init /\ [][NextLive]_vars
                 /\ WF_vars(DriverReset) /\ WF_vars(DriverStep)

\* A grouped environment at a call of its driver; the wrapped environment is
\* about to return inner.
InitGroup ==
    /\ env_name_or_creator = "callable"
    /\ callerCfg = [isNone |-> TRUE, d |-> EmptyDict]
    /\ given = callerCfg
    /\ made = callerCfg
    /\ built = FALSE
    /\ agents = EmptyDict
    /\ dones = {}
    /\ reported = {}
    /\ terminated = FALSE
    /\ call = [op |-> "none", keys |-> {}, before |-> NoBefore]
    /\ ret = NoRet
    /\ \/ /\ gcall = [op |-> "reset", acts |-> EmptyDict]
          /\ inner \in WrappedResets
       \/ /\ gcall \in {[op |-> "step", acts |-> a] : a \in GroupActionDicts}
          /\ inner \in WrappedSteps
    /\ outer = NoRet

NextGroup == GroupReset \/ GroupStep

SpecGroup == InitGroup /\ [][NextGroup]_vars

----------------------------------------------------------------------------
\* Properties.

count == PyLen(agents)

Replicas == DOMAIN agents

StepReturned == call.op = "step" /\ ret.kind = "step"

StepRaised == call.op = "step" /\ ret.kind = "IndexError"

\* The replicas, and the keys, that reported done since the last reset.
ReportedReplicas == {x[2] : x \in reported}

ReportedKeys == {x[1] : x \in reported}

AllValue == ret.special["__all__"]

\* C1: a step returns "__all__" = true iff every one of the count replicas
\* has itself reported done in a single-agent step since the last reset.
C1_AllIffEveryReplicaDone ==
    StepReturned => (AllValue <=> (ReportedReplicas = Replicas))

\* C2: in every step result "__all__" is true iff DoneSet, this call's
\* additions included, has count elements; in particular a step in which
\* every replica is stepped and every report is done returns "__all__" = true.
C2_AllIsSizeTestNoLag ==
    StepReturned =>
        /\ AllValue <=> (Cardinality(dones) = count)
        /\ ( /\ \A p \in Replicas : agents[p].calls.step >= 1
             /\ \A i \in DOMAIN ret.done : ret.done[i] )
           => AllValue

\* C3: every done dict that step returns holds the key "__all__" with a
\* boolean value, the empty action_dict and partial ones included.
C3_AllKeyPresent ==
    StepReturned =>
        /\ "__all__" \in DOMAIN ret.special
        /\ AllValue \in BOOLEAN

C3_EmptyActionDictReturned == StepReturned /\ call.keys = {} /\ count = MaxCount

\* C4: between resets DoneSet only grows: no step and no render removes an
\* index from it, also when its replica is stepped again and reports False.
C4_DonesMonotonic ==
    [][call'.op \in {"step", "render"} => dones \subseteq dones']_vars

C4_DoneThenNotDone ==
    /\ StepReturned
    /\ \E i \in call.keys \cap dones : ~ret.done[i]

\* C5: an action_dict with a key outside 0..count-1 makes step fail and
\* return nothing.
C5_KeyOutsideRangeRaises ==
    (call.op = "step" /\ call.keys \ Replicas # {}) => ret.kind = "IndexError"

\* C6: when the keys of action_dict are replica indices, the obs, reward and
\* info dicts have exactly those keys and the done dict those plus "__all__".
C6_ResultKeysAreActionKeys ==
    (StepReturned /\ call.keys \subseteq Replicas) =>
        /\ DOMAIN ret.obs = call.keys
        /\ DOMAIN ret.rew = call.keys
        /\ DOMAIN ret.info = call.keys
        /\ DOMAIN ret.done = call.keys
        /\ DOMAIN ret.special = {"__all__"}

C6_PartialStep ==
    /\ StepReturned
    /\ call.keys # {}
    /\ call.keys \subseteq Replicas
    /\ Replicas \ call.keys # {}

\* C7: a step leaves every replica whose index is not a key of action_dict
\* unstepped and unchanged, and does not change whether such an index is in
\* DoneSet.
C7_UnkeyedReplicasUntouched ==
    [][call'.op = "step" =>
         \A p \in Replicas : p \notin call'.keys =>
             /\ agents'[p].calls.step = 0
             /\ State(agents'[p]) = State(agents[p])
             /\ (p \in dones') <=> (p \in dones)]_vars

\* C8: reset empties DoneSet whatever came before, twice in a row too, and
\* afterwards "__all__" depends only on the done flags reported since.
C8_ResetClearsDones ==
    /\ call.op = "reset" => dones = {}
    /\ dones = ReportedKeys
    /\ StepReturned => (AllValue <=> (Cardinality(ReportedKeys) = count))

C8_ResetTwiceAfterDone ==
    /\ call.op = "reset"
    /\ call.before.op = "reset"
    /\ call.before.dones # {}
    /\ dones = {}

\* C9: reset calls the reset of every replica exactly once, done or never
\* stepped, and returns exactly the keys 0..count-1, key i holding what
\* replica i's reset returned.
C9_ResetEveryReplicaOnce ==
    call.op = "reset" =>
        /\ \A p \in Replicas : agents[p].calls = [NoCalls EXCEPT !.reset = 1]
        /\ \A p \in Replicas : agents[p].t = 0
        /\ DOMAIN ret.obs = 0..(count - 1)
        /\ \A i \in DOMAIN ret.obs : ret.obs[i] = <<agents[i].uid, 0>> /\ agents[i].uid = i

C9_ResetOfDoneAndUnstepped ==
    /\ call.op = "reset"
    /\ count = MaxCount
    /\ call.before.dones # {}
    /\ Replicas \ call.before.stepped # {}

\* C10: every replica is constructed from the configuration with num_agents
\* removed and the other entries unchanged, whichever the kind of source.
C10_ReplicasGetRestOfConfig ==
    (call.op = "init" /\ ret.kind = "init") =>
        \A p \in Replicas : agents[p].cfg = PopRest(ConfigOr(given), NUM)

\* C11: every constructed adapter has as many replicas as the num_agents
\* entry of the mapping the driver wrote says, or 1 when the driver wrote no
\* such entry, also when the driver hands the same mapping to several
\* constructions.
C11_CountIsCallersNumAgents ==
    (call.op = "init" /\ ret.kind = "init") =>
        count = PopValue(ConfigOr(made), NUM, 1)

\* C12: a render leaves the episode as it is. The render of the base class
\* returns without raising for every mode and touches nothing; the render of
\* the adapter calls the render of replica 0 once and nothing else, so that
\* the done set and the replicas 1..count-1 are as before.
C12_RenderLeavesEpisode ==
    [][call'.op \in {"render", "base_render"} =>
         /\ ret'.kind = "render"
         /\ dones' = dones
         /\ reported' = reported
         /\ DOMAIN agents' = DOMAIN agents
         /\ call'.op = "base_render" =>
               /\ ret'.val = <<>>
               /\ \A p \in Replicas :
                     /\ agents'[p].calls = NoCalls
                     /\ State(agents'[p]) = State(agents[p])
         /\ call'.op = "render" =>
               /\ agents'[0].calls = [NoCalls EXCEPT !.render = 1]
               /\ \A p \in Replicas \ {0} :
                     /\ agents'[p].calls = NoCalls
                     /\ State(agents'[p]) = State(agents[p])]_vars

C12_RenderMidEpisode ==
    /\ call.op = "render"
    /\ count = MaxCount
    /\ dones # {}
    /\ \E p \in Replicas \ {0} : agents[p].t > 0 /\ p \notin dones

\* the sum of f over the keys S
RECURSIVE TotalOf(_, _)
TotalOf(f, S) ==
    IF S = {} THEN 0
    ELSE LET a == CHOOSE x \in S : TRUE IN f[a] + TotalOf(f, S \ {a})

\* C13: in every result dict of a reset or a step of the grouped
\* environment, a group id is a key exactly when all members of the group are
\* keys of the wrapped environment's dict of that call; the present members of
\* a group with an absent member keep their own ids and entries, the absent
\* ones get no entry, and agents in no group pass through as they are.
C13_GroupKeyIffAllMembers ==
    outer.kind \in {"reset", "step"} =>
        \A f \in IF outer.kind = "reset" THEN {"obs"}
                  ELSE {"obs", "rew", "done", "info"} :
            LET in  == inner[f]
                out == outer[f]
            IN  /\ \A g \in GroupIds :
                      /\ g \in DOMAIN out <=> Members(g) \subseteq DOMAIN in
                      /\ ~(Members(g) \subseteq DOMAIN in) =>
                            \A a \in Members(g) :
                                /\ a \in DOMAIN out <=> a \in DOMAIN in
                                /\ a \in DOMAIN in => out[a] = in[a]
                /\ \A a \in Ungrouped :
                      /\ a \in DOMAIN out <=> a \in DOMAIN in
                      /\ a \in DOMAIN in => out[a] = in[a]
                /\ DOMAIN out \subseteq GroupIds \cup DOMAIN in

C13_PartialAndFullGroup ==
    /\ outer.kind = "step"
    /\ DOMAIN inner.obs = {"a1", "a3", "a4"}
    /\ DOMAIN outer.obs = {"a1", "group2", "a4"}

\* C14: for every group whose members are all in the wrapped step result,
\* the reward under the group id is the sum of the members' rewards and the
\* group's info holds under "individual_rewards" the members' rewards as the
\* wrapped environment gave them; the "__all__" done entry is the wrapped
\* environment's.
C14_GroupRewardIsSum ==
    outer.kind = "step" =>
        /\ \A g \in GroupIds :
              Members(g) \subseteq DOMAIN inner.rew =>
                  /\ outer.rew[g] = TotalOf(inner.rew, Members(g))
                  /\ outer.info[g]["individual_rewards"] =
                         [a \in Members(g) |-> inner.rew[a]]
        /\ outer.special = inner.special
        /\ DOMAIN outer.special = {"__all__"}

C14_UnequalRewardsSummed ==
    /\ outer.kind = "step"
    /\ Members("group1") \subseteq DOMAIN inner.rew
    /\ inner.rew["a1"] # inner.rew["a2"]
    /\ "a4" \in DOMAIN inner.rew
    /\ inner.special["__all__"]

\* for i, action in action_dict.items(): the orders in which the entries of
\* ad can be processed
Orders(ad) ==
    { b \in ActionDicts : /\ Len(b) = Len(ad)
                          /\ {b[k] : k \in 1..Len(b)} = {ad[k] : k \in 1..Len(ad)} }

\* The done flags the entries of ad get when replica p reports f[p][j] at its
\* j-th step of the call, whatever the order of the entries.
OutcomeUnder(ad, n, f) ==
    [k \in 1..Len(ad) |->
        IF ~ValidIndex(n, ad[k][1]) THEN FALSE
        ELSE LET p == ListPos(n, ad[k][1])
                 j == Cardinality({h \in 1..k : /\ ValidIndex(n, ad[h][1])
                                                /\ ListPos(n, ad[h][1]) = p})
             IN  f[p][j]]

\* C15: a step that returns gives the same four result dicts, the same done
\* set and the same replicas for every order in which the entries of its
\* action_dict are processed, and steps each replica at most once.
C15_OrderIndependent ==
    [][(call'.op = "step" /\ ret'.kind = "step") =>
         /\ \A p \in Replicas : agents'[p].calls.step <= 1
         /\ \A ad \in {a \in ActionDicts : Keys(a) = call'.keys} :
              \A b \in Orders(ad) :
                \A f \in [Replicas -> [1..MaxActs -> BOOLEAN]] :
                  LET x == StepRun(agents, dones, reported, ad,
                                   OutcomeUnder(ad, count, f))
                      y == StepRun(agents, dones, reported, b,
                                   OutcomeUnder(b, count, f))
                  IN  /\ StepReturn(x) = StepReturn(y)
                      /\ x.dones = y.dones
                      /\ x.agents = y.agents]_vars

\* The calls of step that raise, per replica count: the action_dicts with a
\* key that is no index, with the number of entries before the first such key
\* that name replica p (hits) and the keys among them that report done (added).
FailingCalls ==
    [n \in 0..MaxCount |->
        { [ad |-> x.ad, outcome |-> x.outcome,
           hits |-> [p \in 0..(n - 1) |->
                        Cardinality({k \in Stepped(x.ad, n) :
                                        ListPos(n, x.ad[k][1]) = p})],
           added |-> {x.ad[k][1] : k \in {j \in Stepped(x.ad, n) : x.outcome[j]}}] :
          x \in {y \in StepCalls[n] : Stepped(y.ad, n) # 1..Len(y.ad)} }]

\* C16 as claimed: a step that raises for an index with no replica has
\* stepped no replica and has left the done set as it was.
C16_FailedStepNoEffect ==
    [][(call'.op = "step" /\ ret'.kind = "IndexError") =>
         /\ dones' = dones
         /\ \A p \in Replicas :
               /\ agents'[p].calls.step = 0
               /\ State(agents'[p]) = State(agents[p])]_vars

\* C16: a step that raises for an index with no replica returns no result
\* and has processed exactly the entries of action_dict that come before the
\* first such index: their replicas are stepped, their done keys added, and
\* no entry after it has any effect.
C16_FailedStepStopsAtOffender ==
    /\ StepRaised => ret = Raised("IndexError")
    /\ built =>
         \A c \in FailingCalls[count] :
            LET st == StepRun(agents, dones, reported, c.ad, c.outcome)
            IN  /\ StepReturn(st) = Raised("IndexError")
                /\ \A p \in Replicas :
                      /\ st.agents[p].calls.step = c.hits[p]
                      /\ st.agents[p].t = agents[p].t + c.hits[p]
                /\ st.dones = dones \cup c.added

C16_FailedAfterValidEntry ==
    /\ StepRaised
    /\ count = MaxCount
    /\ \E p \in Replicas : agents[p].calls.step = 1 /\ p \in dones
    /\ \E p \in Replicas : agents[p].calls.step = 0

\* C17: once a step has returned "__all__" = True, every step that returns
\* before the next reset returns "__all__" = True as well.
C17_TerminationStable ==
    (StepReturned /\ terminated) => AllValue

\* C18: the done set holds replica indices 0..count-1 only, so that it never
\* has more elements than there are replicas.
C18_DonesAreReplicaIndices ==
    /\ dones \subseteq Replicas
    /\ Cardinality(dones) <= count

\* C19: when the driver, after a reset, keeps stepping replicas over the
\* indices 0..count-1 until each has reported done, and each replica reports
\* done after finitely many of its steps, some step returns "__all__" = True,
\* also when the replicas are stepped in different rounds and subsets.
C19_EpisodeTerminates == (call.op = "reset") ~> (StepReturned /\ AllValue)

C19_DoneInDifferentRounds ==
    /\ StepReturned
    /\ AllValue
    /\ count = MaxCount
    /\ Cardinality(call.keys) = 1
    /\ \E p, q \in Replicas : agents[p].t < agents[q].t

====
